---- MODULE Spec2Model ----
(***************************************************************************)
(* Model of cvelib/idr.py: the Idr client of the CVE identifier            *)
(* registration service.  Transport (http_request, get, post), the         *)
(* paginator (get_paged, a Python generator) and the endpoint methods      *)
(* (reserve, show_cve, list_cves, quota, ping).                            *)
(*                                                                         *)
(* Values.  A URL or a path is the sequence of its "/"-separated segments, *)
(* so "" is <<"">> and a trailing "/" is a last segment "".  A response    *)
(* body is a sequence of tokens (its bytes); a decoded JSON object is a    *)
(* function from keys to values, where a value is a string (scalar) or a   *)
(* sequence of strings (array).  A dict is a function whose DOMAIN is its  *)
(* key set.  Python None is the string None where a scalar is expected,    *)
(* NoUrl where a URL is expected and NoDate where a date is expected.      *)
(***************************************************************************)
EXTENDS Integers, Sequences, FiniteSets, TLC

VARIABLES clients, ctor, result, server, dicts, run

vars == <<clients, ctor, result, server, dicts, run>>

(***************************************************************************)
(* Bounds of the model.                                                    *)
(***************************************************************************)
NumPages == 3
MaxItems == 2
MaxCount == 2

\* timeout=60 passed to requests.request
RequestTimeout == 60

None == "None"
NoUrl == <<>>
NoDate == <<>>
EmptyUrl == <<"">>

\* Python truthiness of an optional URL string
Truthy(v) == v # NoUrl /\ v # EmptyUrl

\* Python truthiness of an optional scalar string
TruthyStr(v) == v # None /\ v # ""

\* Python `a or b`
PyOr(a, b) == IF Truthy(a) THEN a ELSE b

\* dict.get(key), none being the None of the value's type
DictGet(d, key, none) == IF key \in DOMAIN d THEN d[key] ELSE none

\* d[key] = value on a dict
DictSet(d, key, value) == [k \in (DOMAIN d) \cup {key} |-> IF k = key THEN value ELSE d[k]]

EmptyDict == <<>>

(***************************************************************************)
(* Idr.__init__                                                            *)
(***************************************************************************)
ENVS == [prod |-> <<"https://cveawg.mitre.org", "api", "">>,
         dev  |-> <<"https://cveawg-dev.mitre.org", "api", "">>]

OverrideUrl == <<"http://localhost:3000", "api", "">>

\* self.url = url or self.ENVS.get(env)
ResolveUrl(url, env) == PyOr(url, DictGet(ENVS, env, NoUrl))

\* mutant: the check for a missing URL is left to the first request
CtorRaisesNever(url, env) == FALSE

\* if not self.url: raise ValueError("Missing URL for IDR")
CtorRaises(url, env) == ~Truthy(ResolveUrl(url, env))

NewIdr(username, org, api_key, env, url, raise_exc) ==
    [username |-> username, org |-> org, api_key |-> api_key,
     url |-> ResolveUrl(url, env), raise_exc |-> raise_exc]

Usernames == {"alice"}
Orgs == {"acme"}
ApiKeys == {"secret"}
EnvNames == {"prod", "dev", "staging"}
UrlArgs == {NoUrl, EmptyUrl, OverrideUrl}

(***************************************************************************)
(* JSON decoding of a response body (response.json()).  The grammar is the *)
(* one the modelled server speaks: an object whose members are a key       *)
(* followed by a scalar token or by an array "[" token* "]".               *)
(***************************************************************************)
Structural == {"{", "}", "[", "]"}

\* index of the first "]" at or after position i, 0 when there is none
RECURSIVE CloseIndex(_, _)
CloseIndex(toks, i) ==
    IF i > Len(toks) THEN 0
    ELSE IF toks[i] = "]" THEN i
    ELSE CloseIndex(toks, i + 1)

RECURSIVE MembersOk(_, _)
MembersOk(toks, i) ==
    IF i = Len(toks) THEN TRUE
    ELSE IF i + 1 >= Len(toks) \/ toks[i] \in Structural THEN FALSE
    ELSE IF toks[i + 1] = "["
         THEN LET j == CloseIndex(toks, i + 2)
              IN  /\ j # 0
                  /\ j < Len(toks)
                  /\ \A k \in (i + 2)..(j - 1) : toks[k] \notin Structural
                  /\ MembersOk(toks, j + 1)
         ELSE toks[i + 1] \notin Structural /\ MembersOk(toks, i + 2)

\* response.json() raises ValueError exactly when this is FALSE
JsonDecodes(toks) ==
    /\ Len(toks) >= 2
    /\ toks[1] = "{"
    /\ toks[Len(toks)] = "}"
    /\ MembersOk(toks, 2)

RECURSIVE Members(_, _)
Members(toks, i) ==
    IF i >= Len(toks) THEN EmptyDict
    ELSE IF toks[i + 1] = "["
         THEN LET j == CloseIndex(toks, i + 2)
              IN  Members(toks, j + 1) @@ (toks[i] :> SubSeq(toks, i + 2, j - 1))
         ELSE Members(toks, i + 2)
                  @@ (toks[i] :> IF toks[i + 1] = "null" THEN None ELSE toks[i + 1])

\* the value of response.json() when it decodes
JsonValue(toks) == Members(toks, 2)

(***************************************************************************)
(* The network: what requests.request does with one request.               *)
(***************************************************************************)
JsonErrorBody == <<"{", "error", "NOT_FOUND", "message", "no such id", "}">>
RawErrorBody == <<"<html>", "Bad Gateway", "</html>">>
TruncatedBody == <<"{", "error", "NOT_FOUND">>
OkBody == <<"{", "message", "ok", "}">>

Statuses == {200, 404, 500}
Bodies == {JsonErrorBody, RawErrorBody, TruncatedBody, OkBody}

NetResponse(status, content) == [kind |-> "response", status |-> status, content |-> content]
NetFailure(kind) == [kind |-> kind, status |-> 0, content |-> <<>>]

\* requests.request raises these instead of returning a response
TransportFailures == {NetFailure("Timeout"), NetFailure("ConnectionError")}

NetOutcomes == TransportFailures \cup {NetResponse(s, b) : s \in Statuses, b \in Bodies}

(***************************************************************************)
(* Idr.http_request                                                        *)
(***************************************************************************)
\* urljoin(base, path) for a relative path: the last segment of base is
\* replaced by the path
Urljoin(base, path) == SubSeq(base, 1, Len(base) - 1) \o path

Headers(self) == [key |-> self.api_key, org |-> self.org, user |-> self.username]

Request(self, method, path, params) ==
    [method |-> method, url |-> Urljoin(self.url, path), timeout |-> RequestTimeout,
     headers |-> Headers(self), params |-> params]

\* response.raise_for_status() raises HTTPError for 4xx and 5xx
IsErrorStatus(status) == status >= 400 /\ status < 600

\* str(exc) of the HTTPError of raise_for_status
HTTPErrorStr(status, url) ==
    [status |-> status,
     reason |-> IF status < 500 THEN "Client Error" ELSE "Server Error",
     url |-> url]

NoExc == [type |-> "none", msg |-> <<>>]
NoResponse == [kind |-> "none", status |-> 0, content |-> <<>>]

\* error = exc.response.json(), or exc.response.content on ValueError
ErrorBody(content) ==
    IF JsonDecodes(content) THEN [json |-> JsonValue(content)] ELSE [content |-> content]

\* IdrException(f"{exc}; returned error: {error}")
IdrException(status, url, content) ==
    [type |-> "IdrException",
     msg |-> <<HTTPErrorStr(status, url), "; returned error: ", ErrorBody(content)>>]

\* mutant: raise_exc is ignored, every error status raises
RaisesOnStatusAlways(self, net) == IsErrorStatus(net.status)

\* the `if self.raise_exc:` block raises
RaisesOnStatus(self, net) == self.raise_exc /\ IsErrorStatus(net.status)

\* The outcome of http_request(method, path, params=params) when the network
\* answers the request with net: the requests sent, and either the exception
\* that leaves http_request or the response it returns.
HttpRequest(self, method, path, params, net) ==
    LET req == Request(self, method, path, params)
    IN  IF net.kind # "response"
        THEN \* requests.request raised; line 34 is outside the try block
             [sent |-> <<req>>, exc |-> [type |-> net.kind, msg |-> <<>>],
              response |-> NoResponse]
        ELSE IF RaisesOnStatus(self, net)
        THEN [sent |-> <<req>>, exc |-> IdrException(net.status, req.url, net.content),
              response |-> NoResponse]
        ELSE [sent |-> <<req>>, exc |-> NoExc, response |-> net]

Get(self, path, params, net) == HttpRequest(self, "get", path, params, net)

Post(self, path, params, net) == HttpRequest(self, "post", path, params, net)

(***************************************************************************)
(* Idr.reserve                                                             *)
(***************************************************************************)
\* mutant: batch_type is sent for every count
ReserveParamsAlwaysBatch(count, random, year, owning_cna) ==
    [cve_year |-> year, amount |-> count, short_name |-> owning_cna,
     batch_type |-> IF random THEN "nonsequential" ELSE "sequential"]

ReserveParams(count, random, year, owning_cna) ==
    LET params == [cve_year |-> year, amount |-> count, short_name |-> owning_cna]
    IN  IF count > 1
        THEN DictSet(params, "batch_type", IF random THEN "nonsequential" ELSE "sequential")
        ELSE params

Years == {"2021"}
CveIds == {"CVE-2021-0001"}

(***************************************************************************)
(* Endpoint calls on a constructed client.  result is the outcome of the   *)
(* latest call: its name and arguments, the network's answer, the requests *)
(* the call sent, and the exception raised to the caller or the response   *)
(* returned.  ctor is the outcome of the constructor call.                 *)
(***************************************************************************)
NoResult ==
    [call |-> "none", args |-> <<>>, net |-> NoResponse, sent |-> <<>>, exc |-> NoExc,
     response |-> NoResponse]

Outcome(call, args, net, out) ==
    [call |-> call, args |-> args, net |-> net, sent |-> out.sent, exc |-> out.exc,
     response |-> out.response]

Construct ==
    /\ ctor.status = "pending"
    /\ \E username \in Usernames, org \in Orgs, api_key \in ApiKeys,
          env \in EnvNames, url \in UrlArgs, raise_exc \in BOOLEAN :
          IF CtorRaises(url, env)
          THEN /\ ctor' = [status |-> "ValueError", env |-> env, url |-> url]
               /\ clients' = clients
          ELSE /\ ctor' = [status |-> "ok", env |-> env, url |-> url]
               /\ clients' = clients \cup {NewIdr(username, org, api_key, env, url, raise_exc)}
    /\ UNCHANGED <<result, server, dicts, run>>

Reserve ==
    \E self \in clients, count \in 0..MaxCount, random \in BOOLEAN,
       year \in Years, owning_cna \in Orgs, net \in NetOutcomes :
       /\ result' = Outcome("reserve",
                            [count |-> count, random |-> random, year |-> year,
                             owning_cna |-> owning_cna],
                            net,
                            Post(self, <<"cve-id">>,
                                 ReserveParams(count, random, year, owning_cna), net))
       /\ UNCHANGED <<clients, ctor, server, dicts, run>>

ShowCve ==
    \E self \in clients, cve_id \in CveIds, net \in NetOutcomes :
       /\ result' = Outcome("show_cve", [cve_id |-> cve_id], net,
                            Get(self, <<"cve-id", cve_id>>, EmptyDict, net))
       /\ UNCHANGED <<clients, ctor, server, dicts, run>>

Quota ==
    \E self \in clients, net \in NetOutcomes :
       /\ result' = Outcome("quota", <<>>, net,
                            Get(self, <<"org", self.org, "id_quota">>, EmptyDict, net))
       /\ UNCHANGED <<clients, ctor, server, dicts, run>>

Ping ==
    \E self \in clients, net \in NetOutcomes :
       /\ result' = Outcome("ping", <<>>, net, Get(self, <<"health-check">>, EmptyDict, net))
       /\ UNCHANGED <<clients, ctor, server, dicts, run>>

(***************************************************************************)
(* The server of the paged resource cve-id.  server[i] is page i: its      *)
(* items and its nextPage, which is "absent", "null" or the cursor of the  *)
(* page after it.  A resource is a chain of n pages, each of 0..MaxItems   *)
(* items, the last with an absent or a null cursor; the pages after the    *)
(* chain are full pages that no cursor leads to.                           *)
(***************************************************************************)
CursorTokens == <<"1", "2", "3", "4", "5">>

ItemNames == << <<"a1", "a2", "a3", "a4">>, <<"b1", "b2", "b3", "b4">>,
                <<"c1", "c2", "c3", "c4">>, <<"d1", "d2", "d3", "d4">>,
                <<"e1", "e2", "e3", "e4">> >>

PageNo(cursor) == CHOOSE n \in 1..Len(CursorTokens) : CursorTokens[n] = cursor

ServerPage(i, len, next) == [items |-> SubSeq(ItemNames[i], 1, len), next |-> next]

Resource(n, lens, last) ==
    [i \in 1..NumPages |->
        IF i < n THEN ServerPage(i, lens[i], CursorTokens[i + 1])
        ELSE IF i = n THEN ServerPage(i, lens[i], last)
        ELSE ServerPage(i, MaxItems, "absent")]

Servers ==
    UNION {{Resource(n, lens, last) : lens \in [1..n -> 0..MaxItems],
                                     last \in {"absent", "null"}} : n \in 1..NumPages}

\* the JSON body of a page; a small resource has no nextPage member at all
PageBody(page) ==
    <<"{", "cve_ids", "[">> \o page.items \o <<"]">>
    \o (IF page.next = "absent" THEN <<>> ELSE <<"nextPage", page.next>>)
    \o <<"}">>

\* the answer of a healthy server to GET cve-id with these parameters
ServePage(srv, params) ==
    LET cursor == DictGet(params, "page", None)
        n == IF cursor = None THEN 1 ELSE PageNo(cursor)
    IN  IF n \in DOMAIN srv
        THEN NetResponse(200, PageBody(srv[n]))
        ELSE NetResponse(200, PageBody([items |-> <<>>, next |-> "absent"]))

\* what can go wrong with one fetch
PageFaults ==
    {NetFailure("Timeout"), NetResponse(404, JsonErrorBody), NetResponse(500, RawErrorBody)}

(***************************************************************************)
(* Idr.list_cves                                                           *)
(***************************************************************************)
\* str.upper()
Upper(str) ==
    CASE str = "active" -> "ACTIVE"
      [] str = "Reserved" -> "RESERVED"
      [] OTHER -> str

TwoDigits(n) == <<n \div 10, n % 10>>

\* date.isoformat()
Isoformat(date) == <<date.year, "-", TwoDigits(date.month), "-", TwoDigits(date.day)>>

ListCvesParams(year, state, reserved_lt, reserved_gt) ==
    LET p0 == EmptyDict
        p1 == IF TruthyStr(year) THEN DictSet(p0, "cve_id_year", year) ELSE p0
        p2 == IF TruthyStr(state) THEN DictSet(p1, "state", Upper(state)) ELSE p1
        p3 == IF reserved_lt # NoDate
              THEN DictSet(p2, "time_reserved.lt", Isoformat(reserved_lt)) ELSE p2
        p4 == IF reserved_gt # NoDate
              THEN DictSet(p3, "time_reserved.gt", Isoformat(reserved_gt)) ELSE p3
    IN  p4

YearArgs == {None, "2021"}
StateArgs == {None, "active"}
DateArgs == {NoDate, [year |-> 2021, month |-> 1, day |-> 31]}

(***************************************************************************)
(* Idr.get_paged, a generator.  run[r] is the generator of run r and its   *)
(* consumer; dicts is the heap of parameter mappings, run[r].params the    *)
(* mapping the generator holds a reference to.                             *)
(*   pc: "none" not called, "created" not started, "fetching" about to     *)
(*       call self.get, "yielded" suspended in yield from after item idx,  *)
(*       "done" returned, "error" left by an exception.                    *)
(*   fetches, answers: the requests the run sent and the network's answer  *)
(*       to each; delivered: the items the consumer received; got: what    *)
(*       the consumer's latest next() gave it; given: the initial mapping. *)
(***************************************************************************)
NoRun ==
    [pc |-> "none", path |-> <<>>, attr |-> "", params |-> 0, given |-> EmptyDict,
     page |-> EmptyDict, idx |-> 0, fetches |-> <<>>, answers |-> <<>>, delivered |-> <<>>,
     consumer |-> "idle", got |-> "none", exc |-> NoExc]

\* mutant: the call itself runs the body up to the first fetch
NewGeneratorEager(path, page_data_attr, ref, params) ==
    [NoRun EXCEPT !.pc = "fetching", !.path = path, !.attr = page_data_attr,
                  !.params = ref, !.given = params]

\* calling the generator function runs none of its body
NewGenerator(path, page_data_attr, ref, params) ==
    [NoRun EXCEPT !.pc = "created", !.path = path, !.attr = page_data_attr,
                  !.params = ref, !.given = params]

\* mutant: one mapping object serves every call (a shared default argument)
ParamsRefShared(r) == 1

\* the mapping object of run r: list_cves builds a new dict on every call
ParamsRef(r) == r

\* next_page = page.get("nextPage")
NextPageOf(page) == DictGet(page, "nextPage", None)

\* mutant: page["nextPage"] with no default, so a missing cursor never ends the run
HasNextOrAbsent(page) == "nextPage" \notin DOMAIN page \/ page["nextPage"] # None

\* if next_page is not None
HasNext(page) == NextPageOf(page) # None

\* mutant: the mapping is rebuilt with the cursor alone
PageCursorOnly(d, page) == ("page" :> NextPageOf(page))

\* params["page"] = next_page
PageCursor(d, page) == DictSet(d, "page", NextPageOf(page))

\* the lines after yield from: follow the cursor or return
AfterPage(g, d) ==
    IF HasNext(g.page)
    THEN [g |-> [g EXCEPT !.pc = "fetching"], d |-> PageCursor(d, g.page)]
    ELSE [g |-> [g EXCEPT !.pc = "done", !.consumer = "idle", !.got = "StopIteration"],
          d |-> d]

\* mutant: the last item of every page is dropped
YieldFromDropLast(g, d, i) ==
    IF i < Len(g.page[g.attr])
    THEN [g |-> [g EXCEPT !.pc = "yielded", !.idx = i,
                          !.delivered = Append(@, g.page[g.attr][i]),
                          !.consumer = "idle", !.got = "item"],
          d |-> d]
    ELSE AfterPage(g, d)

\* yield from page[page_data_attr], resumed at item i
YieldFrom(g, d, i) ==
    IF i <= Len(g.page[g.attr])
    THEN [g |-> [g EXCEPT !.pc = "yielded", !.idx = i,
                          !.delivered = Append(@, g.page[g.attr][i]),
                          !.consumer = "idle", !.got = "item"],
          d |-> d]
    ELSE AfterPage(g, d)

\* mutant: a failing fetch ends the run silently
RaiseSwallowed(g, exc) ==
    [g EXCEPT !.pc = "done", !.consumer = "idle", !.got = "StopIteration"]

\* an exception leaves the generator and reaches the consumer's next()
Raise(g, exc) ==
    [g EXCEPT !.pc = "error", !.exc = exc, !.consumer = "idle", !.got = "exception"]

\* the body from the return of self.get to the next yield, fetch or exit
Received(g, d, out) ==
    IF out.exc # NoExc
    THEN [g |-> Raise(g, out.exc), d |-> d]
    ELSE IF ~JsonDecodes(out.response.content)
    THEN [g |-> Raise(g, [type |-> "ValueError", msg |-> <<>>]), d |-> d]
    ELSE LET page == JsonValue(out.response.content)
         IN  IF g.attr \notin DOMAIN page
             THEN [g |-> Raise(g, [type |-> "KeyError", msg |-> <<>>]), d |-> d]
             ELSE YieldFrom([g EXCEPT !.page = page, !.idx = 0], d, 1)

\* list_cves(year, state, reserved_lt, reserved_gt)
ListCves(r, years, states, lts, gts) ==
    /\ run[r].pc = "none"
    /\ clients # {}
    /\ \E year \in years, state \in states, reserved_lt \in lts, reserved_gt \in gts :
          LET params == ListCvesParams(year, state, reserved_lt, reserved_gt)
          IN  /\ run' = [run EXCEPT ![r] =
                            NewGenerator(<<"cve-id">>, "cve_ids", ParamsRef(r), params)]
              /\ dicts' = [dicts EXCEPT ![ParamsRef(r)] = params]
    /\ UNCHANGED <<clients, ctor, result, server>>

\* get_paged("cve-id", "cve_ids", params) on a mapping of the caller
GetPaged(r, mappings) ==
    /\ run[r].pc = "none"
    /\ clients # {}
    /\ \E params \in mappings :
          /\ run' = [run EXCEPT ![r] = NewGenerator(<<"cve-id">>, "cve_ids", r, params)]
          /\ dicts' = [dicts EXCEPT ![r] = params]
    /\ UNCHANGED <<clients, ctor, result, server>>

\* the consumer calls next() on the generator
Pull(r) ==
    LET g == run[r]
        d == dicts[g.params]
    IN  /\ g.consumer = "idle"
        /\ g.pc \in {"created", "yielded", "done", "error"}
        /\ LET res == CASE g.pc = "created" ->
                             [g |-> [g EXCEPT !.pc = "fetching", !.consumer = "waiting"],
                              d |-> d]
                        [] g.pc = "yielded" ->
                             YieldFrom([g EXCEPT !.consumer = "waiting"], d, g.idx + 1)
                        [] OTHER ->
                             [g |-> [g EXCEPT !.got = "StopIteration"], d |-> d]
           IN  /\ run' = [run EXCEPT ![r] = res.g]
               /\ dicts' = [dicts EXCEPT ![g.params] = res.d]
        /\ UNCHANGED <<clients, ctor, result, server>>

\* response = self.get(path, params=params) and what follows it
Fetch(r, faults) ==
    LET g == run[r]
        d == dicts[g.params]
    IN  /\ g.pc = "fetching"
        /\ \E self \in clients, net \in {ServePage(server, d)} \cup faults :
              LET out == Get(self, g.path, d, net)
                  res == Received([g EXCEPT !.fetches = @ \o out.sent,
                                            !.answers = Append(@, net)], d, out)
              IN  /\ run' = [run EXCEPT ![r] = res.g]
                  /\ dicts' = [dicts EXCEPT ![g.params] = res.d]
        /\ UNCHANGED <<clients, ctor, result, server>>

DirectMappings == {("page" :> "2"), ("page" :> "1") @@ ("state" :> "ACTIVE")}

InitRuns(ids, servers, flags) ==
    /\ \E raise_exc \in flags :
          clients = {NewIdr("alice", "acme", "secret", "prod", NoUrl, raise_exc)}
    /\ ctor = [status |-> "ok", env |-> "prod", url |-> NoUrl]
    /\ result = NoResult
    /\ server \in servers
    /\ dicts = [r \in ids |-> EmptyDict]
    /\ run = [r \in ids |-> NoRun]

InitPaged == InitRuns({1}, Servers, BOOLEAN)

NextPaged ==
    \/ \E r \in DOMAIN run : ListCves(r, YearArgs, StateArgs, DateArgs, {NoDate})
    \/ \E r \in DOMAIN run : GetPaged(r, DirectMappings)
    \/ \E r \in DOMAIN run : Pull(r)
    \/ \E r \in DOMAIN run : Fetch(r, PageFaults)

SpecPaged == InitPaged /\ [][NextPaged]_vars

(***************************************************************************)
(* Two pagination runs interleaved on one client.                          *)
(***************************************************************************)
SharedFaults == {NetFailure("Timeout"), NetResponse(500, RawErrorBody)}

\* servers whose pages are empty or full
SharedServers == {s \in Servers : \A i \in DOMAIN s : Len(s[i].items) \in {0, MaxItems}}

InitShared == InitRuns({1, 2}, SharedServers, {TRUE})

NextShared ==
    \/ \E r \in DOMAIN run : ListCves(r, {None}, {None}, {NoDate}, DateArgs)
    \/ \E r \in DOMAIN run : GetPaged(r, {("page" :> "2")})
    \/ \E r \in DOMAIN run : Pull(r)
    \/ \E r \in DOMAIN run : Fetch(r, SharedFaults)

SpecShared == InitShared /\ [][NextShared]_vars

Init ==
    /\ clients = {}
    /\ ctor = [status |-> "pending", env |-> "", url |-> NoUrl]
    /\ result = NoResult
    /\ server = <<>>
    /\ dicts = <<>>
    /\ run = <<>>

Next == Construct \/ Reserve \/ ShowCve \/ Quota \/ Ping

Spec == Init /\ [][Next]_vars

(***************************************************************************)
(* Reference definitions for the properties of a pagination run.           *)
(***************************************************************************)
IsPrefix(a, b) == Len(a) <= Len(b) /\ SubSeq(b, 1, Len(a)) = a

\* the page a run starts at
FirstPage(given) == IF "page" \in DOMAIN given THEN PageNo(given["page"]) ELSE 1

\* the pages from page n up to and including the first one whose nextPage is
\* absent or null
RECURSIVE Chain(_, _)
Chain(srv, n) ==
    IF srv[n].next \in {"absent", "null"}
    THEN <<n>>
    ELSE <<n>> \o Chain(srv, PageNo(srv[n].next))

RECURSIVE ConcatItems(_, _)
ConcatItems(srv, pages) ==
    IF pages = <<>> THEN <<>>
    ELSE srv[Head(pages)].items \o ConcatItems(srv, Tail(pages))

ExpectedPages(g) == Chain(server, FirstPage(g.given))

ExpectedItems(g) == ConcatItems(server, ExpectedPages(g))

\* every fetch of the run so far was answered by the healthy server
Healthy(g) ==
    \A k \in 1..Len(g.answers) : g.answers[k] = ServePage(server, g.fetches[k].params)

Started == {r \in DOMAIN run : run[r].pc # "none"}

\* C1: the items a run has emitted are at every moment a prefix of the
\* concatenation, in server order, of the item arrays of the pages from its
\* first page to the first page whose nextPage is absent or null, and a run
\* consumed to exhaustion has emitted exactly that concatenation.
C1_EmitsConcatenation ==
    \A r \in Started :
        /\ IsPrefix(run[r].delivered, ExpectedItems(run[r]))
        /\ run[r].pc = "done" => run[r].delivered = ExpectedItems(run[r])

\* an exhausted run over two or more pages that emitted two or more items
C1_Witness ==
    \E r \in Started :
        /\ run[r].pc = "done"
        /\ Len(run[r].fetches) >= 2
        /\ Len(run[r].delivered) >= 2

\* C2: a run never fetches more pages than there are up to and including the
\* first page whose nextPage is absent or null, an exhausted run has fetched
\* exactly that many, and a run the server answered healthily never ends in
\* an error, whether the cursor of its last page is absent or null.
C2_FetchCount ==
    \A r \in Started :
        /\ Len(run[r].fetches) <= Len(ExpectedPages(run[r]))
        /\ run[r].pc = "done" => Len(run[r].fetches) = Len(ExpectedPages(run[r]))
        /\ Healthy(run[r]) => run[r].pc # "error"

\* an exhausted run of exactly one fetch whose only page has no nextPage
\* member at all
C2_Witness ==
    \E r \in Started :
        /\ run[r].pc = "done"
        /\ Len(run[r].fetches) = 1
        /\ server[FirstPage(run[r].given)].next = "absent"

\* the items of the pages the first k fetches returned
RECURSIVE ItemsFetched(_, _)
ItemsFetched(g, k) ==
    IF k = 0 THEN <<>>
    ELSE ItemsFetched(g, k - 1)
         \o (IF g.answers[k].kind = "response" /\ JsonDecodes(g.answers[k].content)
                /\ g.attr \in DOMAIN JsonValue(g.answers[k].content)
             THEN JsonValue(g.answers[k].content)[g.attr]
             ELSE <<>>)

\* C3: no fetch is issued before the consumer's first next(), a fetch is
\* pending only while the consumer waits in next(), and when fetch k+1 has
\* been issued every item of the pages of fetches 1..k has been delivered.
C3_Incremental ==
    \A r \in Started :
        /\ run[r].got = "none" /\ run[r].consumer = "idle" => run[r].fetches = <<>>
        /\ run[r].pc = "fetching" => run[r].consumer = "waiting"
        /\ Len(run[r].fetches) >= 1 =>
              IsPrefix(ItemsFetched(run[r], Len(run[r].fetches) - 1), run[r].delivered)
        /\ run[r].pc = "fetching" =>
              run[r].delivered = ItemsFetched(run[r], Len(run[r].fetches))

\* the consumer stopped after the last item of a page that has a successor:
\* the next page has not been fetched
C3_Witness ==
    \E r \in Started :
        /\ run[r].pc = "yielded"
        /\ run[r].consumer = "idle"
        /\ run[r].idx = Len(run[r].page[run[r].attr])
        /\ HasNext(run[r].page)
        /\ Len(run[r].fetches) = 1

\* C6: when the latest fetch of a run failed (self.get raised), the run is
\* aborted with the error of that fetch; the consumer of an aborted run holds
\* exactly the items of the pages fetched before the last fetch, in order;
\* an aborted run delivers no further item and issues no further fetch.
C6_AbortOnFailure ==
    /\ [](\A r \in Started :
            LET g == run[r]
                k == Len(g.fetches)
            IN  /\ \A self \in clients :
                      (/\ k >= 1
                       /\ \/ g.answers[k].kind # "response"
                          \/ self.raise_exc /\ g.answers[k].status \in 400..599)
                      => /\ g.pc = "error"
                         /\ IF g.answers[k].kind # "response"
                            THEN g.exc.type = g.answers[k].kind
                            ELSE /\ g.exc.type = "IdrException"
                                 /\ g.exc.msg[1].status = g.answers[k].status
                /\ g.pc = "error"
                   => /\ k >= 1
                      /\ g.delivered = ItemsFetched(g, k - 1)
                      /\ IsPrefix(g.delivered, ExpectedItems(g)))
    /\ [][\A r \in Started :
            run[r].pc = "error"
            => /\ run'[r].pc = "error"
               /\ run'[r].exc = run[r].exc
               /\ run'[r].delivered = run[r].delivered
               /\ run'[r].fetches = run[r].fetches]_vars

\* the second or a later fetch timed out after items were delivered, and the
\* consumer has called next() once more since
C6_Witness ==
    \E r \in Started :
        /\ run[r].pc = "error"
        /\ Len(run[r].fetches) >= 2
        /\ run[r].answers[Len(run[r].fetches)].kind = "Timeout"
        /\ run[r].delivered # <<>>
        /\ run[r].got = "StopIteration"

\* C7: with two runs interleaved on one client, each run emits a prefix of,
\* and when exhausted exactly, the item sequence it emits alone; its first
\* fetch carries its own initial mapping and its k-th fetch its own initial
\* mapping with page set to the cursor of the k-th page of its own chain;
\* the client object is never modified.
C7_RunsIndependent ==
    /\ [](\A r \in Started :
            LET g == run[r]
            IN  /\ IsPrefix(g.delivered, ExpectedItems(g))
                /\ g.pc = "done" => g.delivered = ExpectedItems(g)
                /\ Len(g.fetches) <= Len(ExpectedPages(g))
                /\ \A k \in 1..Len(g.fetches) :
                      LET sent == g.fetches[k].params
                      IN  IF k = 1 THEN sent = g.given
                          ELSE /\ DOMAIN sent = DOMAIN g.given \cup {"page"}
                               /\ sent["page"] = CursorTokens[ExpectedPages(g)[k]]
                               /\ \A key \in DOMAIN g.given \ {"page"} :
                                     sent[key] = g.given[key])
    /\ [][clients' = clients]_vars

\* run 2 is about to fetch a further page while run 1 is suspended in the
\* middle of its own run with another mapping
C7_Witness ==
    /\ DOMAIN run = {1, 2}
    /\ run[1].pc = "yielded"
    /\ Len(run[1].fetches) >= 1
    /\ run[2].pc = "fetching"
    /\ Len(run[2].fetches) >= 1
    /\ run[1].given # run[2].given

\* C10: the first fetch of a run carries the initial mapping; the fetch
\* after fetch k carries the mapping of fetch k with page set to the nextPage
\* returned to fetch k and every other entry unchanged; between fetches the
\* mapping object is the mapping of the latest fetch, with the page entry
\* already updated only while the next fetch is pending, so it is unchanged
\* after the page whose nextPage is absent or null.
C10_OnlyPageChanges ==
    \A r \in Started :
        LET g == run[r]
            n == Len(g.fetches)
            d == dicts[g.params]
            Follows(p, q, k) ==
                /\ DOMAIN q = DOMAIN p \cup {"page"}
                /\ g.answers[k].kind = "response"
                /\ q["page"] \in {tok \in {g.answers[k].content[i] :
                                             i \in 1..Len(g.answers[k].content)} :
                                     \E i \in 2..Len(g.answers[k].content) :
                                        /\ g.answers[k].content[i] = tok
                                        /\ g.answers[k].content[i - 1] = "nextPage"}
                /\ \A key \in DOMAIN p \ {"page"} : q[key] = p[key]
        IN  /\ n >= 1 => g.fetches[1].params = g.given
            /\ \A k \in 1..(n - 1) : Follows(g.fetches[k].params, g.fetches[k + 1].params, k)
            /\ IF n = 0 THEN d = g.given
               ELSE IF g.pc = "fetching" THEN Follows(g.fetches[n].params, d, n)
               ELSE d = g.fetches[n].params

\* an exhausted run of two or more fetches whose initial mapping holds a
\* filter entry
C10_Witness ==
    \E r \in Started :
        /\ run[r].pc = "done"
        /\ Len(run[r].fetches) >= 2
        /\ DOMAIN run[r].given \ {"page"} # {}

\* C4: with raise_exc every failure of a call (a timeout, a refused
\* connection, a response outside 2xx) reaches the caller as IdrException.
C4_SingleErrorType ==
    \A self \in clients :
        (/\ result.call # "none"
         /\ self.raise_exc
         /\ \/ result.net.kind # "response"
            \/ result.net.status \notin 200..299)
        => result.exc.type = "IdrException"

\* C5: for a response with an error status the call raises IdrException
\* whose message holds the HTTP error and the body, decoded when it is JSON
\* and raw otherwise, if raise_exc is set, and returns the response as it
\* is if raise_exc is not set; a response with a success status is returned
\* as it is in both modes.
C5_FailurePolicy ==
    \A self \in clients :
        (result.call # "none" /\ result.net.kind = "response")
        => LET status == result.net.status
               body == result.net.content
           IN  /\ (status \in 400..599 /\ self.raise_exc)
                  => /\ result.exc.type = "IdrException"
                     /\ result.response = NoResponse
                     /\ Len(result.exc.msg) = 3
                     /\ result.exc.msg[1].status = status
                     /\ result.exc.msg[1].url = result.sent[1].url
                     /\ result.exc.msg[3] =
                           IF JsonDecodes(body) THEN [json |-> JsonValue(body)]
                           ELSE [content |-> body]
                     /\ body = JsonErrorBody
                        => result.exc.msg[3] =
                              [json |-> [error |-> "NOT_FOUND", message |-> "no such id"]]
                     /\ body \in {RawErrorBody, TruncatedBody}
                        => result.exc.msg[3] = [content |-> body]
               /\ (status \in 400..599 /\ ~self.raise_exc)
                  => result.exc = NoExc /\ result.response = result.net
               /\ status \in 200..299
                  => result.exc = NoExc /\ result.response = result.net

\* a 404 with a JSON body returned to the caller of a client built with
\* raise_exc disabled
C5_Witness ==
    \E self \in clients :
        /\ ~self.raise_exc
        /\ result.call # "none"
        /\ result.net = NetResponse(404, JsonErrorBody)
        /\ result.response = result.net

\* C8: reserve sends one POST to cve-id with cve_year, amount and short_name
\* taken from its arguments, and with batch_type exactly when count > 1,
\* nonsequential if random and sequential if not.
C8_ReserveParams ==
    \A self \in clients :
        result.call = "reserve"
        => LET params == result.sent[1].params
               args == result.args
           IN  /\ Len(result.sent) = 1
               /\ result.sent[1].method = "post"
               /\ result.sent[1].url = SubSeq(self.url, 1, Len(self.url) - 1) \o <<"cve-id">>
               /\ {"cve_year", "amount", "short_name"} \subseteq DOMAIN params
               /\ DOMAIN params \subseteq {"cve_year", "amount", "short_name", "batch_type"}
               /\ params["cve_year"] = args.year
               /\ params["amount"] = args.count
               /\ params["short_name"] = args.owning_cna
               /\ "batch_type" \in DOMAIN params <=> args.count > 1
               /\ "batch_type" \in DOMAIN params
                  => params["batch_type"] =
                        IF args.random THEN "nonsequential" ELSE "sequential"

\* reserve of a single identifier with random set
C8_Witness ==
    /\ result.call = "reserve"
    /\ result.args.count = 1
    /\ result.args.random

\* C9: construction fails with ValueError exactly when the url argument is
\* missing or empty and the environment name is not one of ENVS; otherwise
\* the client's url is the url argument if one is given and the URL of the
\* environment if not; after a failed construction there is no client and no
\* request, and every client that exists has a base URL.
C9_EagerUrlCheck ==
    /\ ctor.status # "pending"
       => (ctor.status = "ValueError"
           <=> (ctor.url \in {NoUrl, EmptyUrl} /\ ctor.env \notin {"prod", "dev"}))
    /\ ctor.status = "ok"
       => /\ clients # {}
          /\ \A self \in clients :
                self.url = IF ctor.url \notin {NoUrl, EmptyUrl} THEN ctor.url
                           ELSE ENVS[ctor.env]
    /\ ctor.status # "ok" => clients = {} /\ result = NoResult
    /\ \A self \in clients : self.url \notin {NoUrl, EmptyUrl}
    /\ result.sent # <<>> => ctor.status = "ok"

\* construction with an empty url and an unknown environment has failed
C9_Witness ==
    /\ ctor.status = "ValueError"
    /\ ctor.url = EmptyUrl
    /\ ctor.env = "staging"

====
